---- MODULE Spec2Model ----
(***************************************************************************)
(* Model of together_models.py: role classification (determine_roles),     *)
(* version tracking (increment_version, create_yaml_file) and the run loop *)
(* of main() with its version cache (.version_cache.json) and its output   *)
(* directory of YAML documents.                                            *)
(*                                                                         *)
(* Python strings that the code inspects character by character (display   *)
(* names, ids, version strings, file names) are sequences of one-character *)
(* strings.  Role names and type names are only compared for equality and  *)
(* are plain strings.                                                      *)
(***************************************************************************)
EXTENDS Integers, Sequences, FiniteSets, TLC

VARIABLES
    model_data,     \* the record handed to determine_roles / create_yaml_file
    result,         \* what the last call returned
    cache_file,     \* contents of .version_cache.json (the persisted ledger)
    version_cache,  \* main()'s in-memory ledger during a run
    files,          \* the output directory: file name -> YAML document
    args,           \* command line options of the current run
    pc,             \* where main() is: "idle" (no run), "loop" (for loop)
    steps,          \* number of records the for loops have taken so far
    hist            \* history of each id over the runs (observation only)

vars == <<model_data, result, cache_file, version_cache, files, args, pc,
          steps, hist>>

-----------------------------------------------------------------------------
(* Strings as sequences of characters *)

LowerSeq == <<"a","b","c","d","e","f","g","h","i","j","k","l","m",
              "n","o","p","q","r","s","t","u","v","w","x","y","z">>
UpperSeq == <<"A","B","C","D","E","F","G","H","I","J","K","L","M",
              "N","O","P","Q","R","S","T","U","V","W","X","Y","Z">>
DigitSeq == <<"0","1","2","3","4","5","6","7","8","9">>

Range(s) == {s[k] : k \in 1..Len(s)}
LowerChars == Range(LowerSeq)
UpperChars == Range(UpperSeq)
DigitChars == Range(DigitSeq)

IndexOf(c, s) == CHOOSE k \in 1..Len(s) : s[k] = c

\* str.lower() on one character
LowerChar(c) == IF c \in UpperChars THEN LowerSeq[IndexOf(c, UpperSeq)] ELSE c

\* re.sub(c+, c, s): every run of the character c becomes one c
RECURSIVE CollapseRuns(_, _)
CollapseRuns(c, s) ==
    IF Len(s) < 2 THEN s
    ELSE IF s[1] = c /\ s[2] = c THEN CollapseRuns(c, Tail(s))
         ELSE <<s[1]>> \o CollapseRuns(c, Tail(s))

\* str.rstrip(chars)
RECURSIVE RStrip(_, _)
RStrip(chars, s) ==
    IF s # <<>> /\ s[Len(s)] \in chars THEN RStrip(chars, SubSeq(s, 1, Len(s) - 1))
    ELSE s

-----------------------------------------------------------------------------
(* sanitize_filename *)

BracketChars == {"[", "]", "{", "}", "(", ")"}
\* \w of the regular expressions, on the characters of the model
WordChars == LowerChars \cup UpperChars \cup DigitChars \cup {"_"}

SpaceToHyphen(c) == IF c = " " THEN "-" ELSE c
NotBracket(c) == c \notin BracketChars
UnsafeToUnderscore(c) == IF c \in WordChars \cup {"-", "."} THEN c ELSE "_"

\* the function without its final rstrip
sanitize_filename_NoStrip(name) ==
    LET lowered  == [k \in 1..Len(name) |-> SpaceToHyphen(LowerChar(name[k]))]
        stripped == SelectSeq(lowered, NotBracket)
        safe     == [k \in 1..Len(stripped) |-> UnsafeToUnderscore(stripped[k])]
    IN  CollapseRuns("-", CollapseRuns("_", safe))

sanitize_filename(name) ==
    LET lowered  == [k \in 1..Len(name) |-> SpaceToHyphen(LowerChar(name[k]))]
        stripped == SelectSeq(lowered, NotBracket)
        safe     == [k \in 1..Len(stripped) |-> UnsafeToUnderscore(stripped[k])]
        reduced  == CollapseRuns("-", CollapseRuns("_", safe))
    IN  RStrip({"-", "_"}, reduced)

YamlSuffix == <<".", "y", "a", "m", "l">>

-----------------------------------------------------------------------------
(* AUTOCOMPLETE_MODELS and determine_roles *)

Llama3Lite == <<"M","e","t","a"," ","L","l","a","m","a"," ","3"," ","8","B",
                " ","I","n","s","t","r","u","c","t"," ","L","i","t","e">>
Llama3Turbo == <<"M","e","t","a"," ","L","l","a","m","a"," ","3"," ","8","B",
                 " ","I","n","s","t","r","u","c","t"," ","T","u","r","b","o">>
Llama31Turbo == <<"M","e","t","a"," ","L","l","a","m","a"," ","3",".","1"," ",
                  "8","B"," ","I","n","s","t","r","u","c","t"," ","T","u","r",
                  "b","o">>
Llama3Reference == <<"M","e","t","a"," ","L","l","a","m","a"," ","3"," ","8",
                     "B"," ","I","n","s","t","r","u","c","t"," ","R","e","f",
                     "e","r","e","n","c","e">>
GemmaInstruct2B == <<"G","e","m","m","a"," ","I","n","s","t","r","u","c","t",
                     " ","(","2","B",")">>
Gemma2Instruct9B == <<"G","e","m","m","a","-","2"," ","I","n","s","t","r","u",
                      "c","t"," ","(","9","B",")">>
Mistral7BInstruct == <<"M","i","s","t","r","a","l"," ","(","7","B",")"," ",
                       "I","n","s","t","r","u","c","t"," ","v","0",".","2">>
Mistral7B == <<"M","i","s","t","r","a","l"," ","(","7","B",")">>

AUTOCOMPLETE_MODELS ==
    {Llama3Lite, Llama3Turbo, Llama31Turbo, Llama3Reference,
     GemmaInstruct2B, Gemma2Instruct9B, Mistral7BInstruct, Mistral7B}

\* dict.get(key, default): a record of the catalog is a function from the keys
\* it has to their values
Get(d, key, default) == IF key \in DOMAIN d THEN d[key] ELSE default

\* the order sorted() gives the role names (lexicographic order of the strings)
RoleOrder == <<"apply", "audio", "autocomplete", "chat", "edit", "embed",
               "image", "moderation", "rerank">>

\* the roles in the order they were appended
SortedRoles_InsertionOrder(roles) == roles

\* sorted(list(set(roles)))
SortedRoles(roles) ==
    LET In(r) == r \in Range(roles) IN SelectSeq(RoleOrder, In)

\* a mapping that grants edit to every chat or language model
type_to_role_WithEdit(model_type) ==
    CASE model_type \in {"chat", "language"} -> <<"chat", "edit">>
      [] model_type = "embedding"  -> <<"embed">>
      [] model_type = "rerank"     -> <<"rerank">>
      [] model_type = "image"      -> <<"image">>
      [] model_type = "audio"      -> <<"audio">>
      [] model_type = "moderation" -> <<"moderation">>
      [] OTHER                     -> <<>>

\* a mapping that keeps autocomplete as a default of language models
type_to_role_LanguageAutocomplete(model_type) ==
    CASE model_type = "chat"       -> <<"chat">>
      [] model_type = "language"   -> <<"chat", "autocomplete">>
      [] model_type = "embedding"  -> <<"embed">>
      [] model_type = "rerank"     -> <<"rerank">>
      [] model_type = "image"      -> <<"image">>
      [] model_type = "audio"      -> <<"audio">>
      [] model_type = "moderation" -> <<"moderation">>
      [] OTHER                     -> <<>>

type_to_role(model_type) ==
    CASE model_type = "chat"       -> <<"chat">>
      [] model_type = "language"   -> <<"chat">>
      [] model_type = "embedding"  -> <<"embed">>
      [] model_type = "rerank"     -> <<"rerank">>
      [] model_type = "image"      -> <<"image">>
      [] model_type = "audio"      -> <<"audio">>
      [] model_type = "moderation" -> <<"moderation">>
      [] OTHER                     -> <<>>

MinContext == 8192

\* the context roles with the threshold at 4096 instead of 8192
ContextRoles_LowThreshold(md, roles) ==
    IF Get(md, "type", "") \in {"chat", "language"}
    THEN LET context_length == Get(md, "context_length", 0)
             withApply == IF context_length >= 4096
                             /\ "apply" \notin Range(roles)
                          THEN Append(roles, "apply") ELSE roles
         IN  IF context_length >= 4096 /\ "edit" \notin Range(withApply)
             THEN Append(withApply, "edit") ELSE withApply
    ELSE roles

\* context roles granted without looking at the type
ContextRoles_AnyType(md, roles) ==
    LET context_length == Get(md, "context_length", 0)
        withApply == IF context_length >= MinContext
                        /\ "apply" \notin Range(roles)
                     THEN Append(roles, "apply") ELSE roles
    IN  IF context_length >= MinContext /\ "edit" \notin Range(withApply)
        THEN Append(withApply, "edit") ELSE withApply

\* lines 120-127: the roles added for the context length, given the roles so far
ContextRoles(md, roles) ==
    IF Get(md, "type", "") \in {"chat", "language"}
    THEN LET context_length == Get(md, "context_length", 0)
             withApply == IF context_length >= MinContext
                             /\ "apply" \notin Range(roles)
                          THEN Append(roles, "apply") ELSE roles
         IN  IF context_length >= MinContext /\ "edit" \notin Range(withApply)
             THEN Append(withApply, "edit") ELSE withApply
    ELSE roles

\* the membership test on the display name alone
InAutocompleteList_NameOnly(md) ==
    Get(md, "display_name", <<>>) \in AUTOCOMPLETE_MODELS

\* lines 129-137
InAutocompleteList(md) ==
    \/ Get(md, "display_name", <<>>) \in AUTOCOMPLETE_MODELS
    \/ Get(md, "id", <<>>) \in AUTOCOMPLETE_MODELS

AutocompleteRoles(md, roles) ==
    IF InAutocompleteList(md) /\ "autocomplete" \notin Range(roles)
    THEN Append(roles, "autocomplete") ELSE roles

determine_roles(md) ==
    SortedRoles(
        AutocompleteRoles(md,
            ContextRoles(md, type_to_role(Get(md, "type", "")))))

-----------------------------------------------------------------------------
(* semver.VersionInfo.parse, bump_minor and str, as increment_version uses them *)

IntToStr(n) ==
    LET RECURSIVE Digits(_)
        Digits(m) == IF m < 10 THEN <<DigitSeq[m + 1]>>
                     ELSE Digits(m \div 10) \o <<DigitSeq[(m % 10) + 1]>>
    IN  Digits(n)

StrToInt(s) ==
    LET RECURSIVE Value(_)
        Value(t) == IF t = <<>> THEN 0
                    ELSE 10 * Value(SubSeq(t, 1, Len(t) - 1))
                         + (IndexOf(t[Len(t)], DigitSeq) - 1)
    IN  Value(s)

\* position of the first c in s, 0 when there is none
FirstIndex(c, s) ==
    IF c \in Range(s) THEN CHOOSE k \in 1..Len(s) :
                               s[k] = c /\ \A j \in 1..(k - 1) : s[j] # c
    ELSE 0

\* str.split(sep) for a one-character separator
RECURSIVE Split(_, _)
Split(s, sep) ==
    LET k == FirstIndex(sep, s)
    IN  IF k = 0 THEN <<s>>
        ELSE <<SubSeq(s, 1, k - 1)>> \o Split(SubSeq(s, k + 1, Len(s)), sep)

\* 0|[1-9]\d*
IsNumeric(s) ==
    /\ s # <<>>
    /\ Range(s) \subseteq DigitChars
    /\ (Len(s) = 1 \/ s[1] # "0")

IdentChars == DigitChars \cup LowerChars \cup UpperChars \cup {"-"}

\* [0-9a-zA-Z-]+
IsBuildIdent(s) == s # <<>> /\ Range(s) \subseteq IdentChars

\* 0|[1-9]\d*|\d*[a-zA-Z-][0-9a-zA-Z-]*
IsPrereleaseIdent(s) ==
    /\ IsBuildIdent(s)
    /\ (Range(s) \subseteq DigitChars => IsNumeric(s))

\* The fields of the version string: the core before the first "-" or "+",
\* the prerelease after "-", the build after "+".
VersionParts(v) ==
    LET plus    == FirstIndex("+", v)
        noBuild == IF plus = 0 THEN v ELSE SubSeq(v, 1, plus - 1)
        dash    == FirstIndex("-", noBuild)
    IN  [core       |-> IF dash = 0 THEN noBuild ELSE SubSeq(noBuild, 1, dash - 1),
         hasPre     |-> dash # 0,
         prerelease |-> IF dash = 0 THEN <<>>
                        ELSE SubSeq(noBuild, dash + 1, Len(noBuild)),
         hasBuild   |-> plus # 0,
         build      |-> IF plus = 0 THEN <<>> ELSE SubSeq(v, plus + 1, Len(v))]

\* VersionInfo.parse does not raise ValueError
IsValidVersion(v) ==
    LET p    == VersionParts(v)
        core == Split(p.core, ".")
    IN  /\ Len(core) = 3
        /\ \A k \in 1..Len(core) : IsNumeric(core[k])
        /\ (p.hasPre =>
               LET ids == Split(p.prerelease, ".")
               IN  \A k \in 1..Len(ids) : IsPrereleaseIdent(ids[k]))
        /\ (p.hasBuild =>
               LET ids == Split(p.build, ".")
               IN  \A k \in 1..Len(ids) : IsBuildIdent(ids[k]))

\* VersionInfo.parse of a valid version string
ParseVersion(v) ==
    LET core == Split(VersionParts(v).core, ".")
    IN  [major |-> StrToInt(core[1]), minor |-> StrToInt(core[2]),
         patch |-> StrToInt(core[3])]

\* str(VersionInfo(major, minor, patch))
VersionStr(major, minor, patch) ==
    IntToStr(major) \o <<".">> \o IntToStr(minor) \o <<".">> \o IntToStr(patch)

\* a bump that forgets to reset patch
BumpMinor_KeepPatch(info) ==
    [major |-> info.major, minor |-> info.minor + 1, patch |-> info.patch]

\* VersionInfo.bump_minor keeps major, adds one to minor, and drops patch,
\* prerelease and build
BumpMinor(info) == [major |-> info.major, minor |-> info.minor + 1, patch |-> 0]

\* an increment of the patch component instead of the minor one
increment_version_BumpPatch(current_version) ==
    IF IsValidVersion(current_version)
    THEN LET info == ParseVersion(current_version)
         IN  VersionStr(info.major, info.minor, info.patch + 1)
    ELSE VersionStr(1, 0, 0)

\* a fallback that hands the invalid string back
increment_version_KeepInvalid(current_version) ==
    IF IsValidVersion(current_version)
    THEN LET bumped == BumpMinor(ParseVersion(current_version))
         IN  VersionStr(bumped.major, bumped.minor, bumped.patch)
    ELSE current_version

increment_version(current_version) ==
    IF IsValidVersion(current_version)
    THEN LET bumped == BumpMinor(ParseVersion(current_version))
         IN  VersionStr(bumped.major, bumped.minor, bumped.patch)
    ELSE VersionStr(1, 0, 0)

-----------------------------------------------------------------------------
(* Catalog records, fingerprints, documents *)

EmptyDict == [k \in {} |-> 0]

\* a key of a dict: absent when S is empty, else bound to the element of S
OptField(key, S) == IF S = {} THEN EmptyDict ELSE key :> (CHOOSE x \in S : TRUE)

Record(ids, names, types, lengths, prices) ==
    OptField("id", ids) @@ OptField("display_name", names)
    @@ OptField("type", types) @@ OptField("context_length", lengths)
    @@ OptField("pricing", prices)

\* a digest of the whole record
generate_model_hash_WholeRecord(md) == md

\* a digest that leaves the pricing out
generate_model_hash_NoPricing(md) ==
    [id             |-> Get(md, "id", <<>>),
     display_name   |-> Get(md, "display_name", <<>>),
     type           |-> Get(md, "type", ""),
     context_length |-> Get(md, "context_length", 0),
     pricing        |-> EmptyDict]

\* json.dumps(simplified_data, sort_keys=True) is one-to-one on these five
\* values; md5 is taken to be collision free, so the digest is represented by
\* the data it is computed from.
generate_model_hash(md) ==
    [id             |-> Get(md, "id", <<>>),
     display_name   |-> Get(md, "display_name", <<>>),
     type           |-> Get(md, "type", ""),
     context_length |-> Get(md, "context_length", 0),
     pricing        |-> Get(md, "pricing", EmptyDict)]

\* a default version of 0.1.0
DefaultVersion_ZeroOne == VersionStr(0, 1, 0)

\* line 257: version = "1.0.0"
DefaultVersion == VersionStr(1, 0, 0)

\* a comparison of the hashes that always finds a change
VersionAndStatus_AlwaysUpdated(md, cache) ==
    LET model_id == Get(md, "id", <<>>)
    IN  IF model_id \in DOMAIN cache
        THEN [version |-> increment_version(cache[model_id].version),
              status  |-> "updated"]
        ELSE [version |-> DefaultVersion, status |-> "created"]

\* an update that starts over from the default version
VersionAndStatus_ResetOnUpdate(md, cache) ==
    LET model_id     == Get(md, "id", <<>>)
        current_hash == generate_model_hash(md)
    IN  IF model_id \in DOMAIN cache
        THEN IF current_hash # cache[model_id].hash
             THEN [version |-> DefaultVersion, status |-> "updated"]
             ELSE [version |-> cache[model_id].version, status |-> "unchanged"]
        ELSE [version |-> DefaultVersion, status |-> "created"]

\* lines 255-278: the version and the status from the cache
VersionAndStatus(md, cache) ==
    LET model_id     == Get(md, "id", <<>>)
        current_hash == generate_model_hash(md)
    IN  IF model_id \in DOMAIN cache
        THEN IF current_hash # cache[model_id].hash
             THEN [version |-> increment_version(cache[model_id].version),
                   status  |-> "updated"]
             ELSE [version |-> cache[model_id].version, status |-> "unchanged"]
        ELSE [version |-> DefaultVersion, status |-> "created"]

\* a document that gets its context block whatever the context_length
YamlContent_ContextAlways(md, version, roles) ==
    LET display_name   == Get(md, "display_name", <<>>)
        context_length == Get(md, "context_length", 0)
        base == [name     |-> display_name,
                 provider |-> "together",
                 model    |-> Get(md, "id", <<>>),
                 apiKey   |-> "${{ inputs.TOGETHER_API_KEY }}"]
        options == "defaultCompletionOptions"
                       :> [contextLength |-> context_length]
    IN  [name    |-> display_name,
         version |-> version,
         schema  |-> "v1",
         models  |-> <<base @@ options @@ ("roles" :> roles)>>]

\* lines 280-309
YamlContent(md, version, roles) ==
    LET display_name   == Get(md, "display_name", <<>>)
        context_length == Get(md, "context_length", 0)
        base == [name     |-> display_name,
                 provider |-> "together",
                 model    |-> Get(md, "id", <<>>),
                 apiKey   |-> "${{ inputs.TOGETHER_API_KEY }}"]
        options == IF context_length > 0
                   THEN "defaultCompletionOptions"
                            :> [contextLength |-> context_length]
                   ELSE EmptyDict
    IN  [name    |-> display_name,
         version |-> version,
         schema  |-> "v1",
         models  |-> <<base @@ options @@ ("roles" :> roles)>>]

\* a validation that does not look at the roles
validate_yaml_content_NoRoles(yaml_content) ==
    LET models == Get(yaml_content, "models", <<>>)
    IN  {<<"missing", f>> : f \in {"name", "version", "schema", "models"} \ DOMAIN yaml_content}
        \cup (IF Get(yaml_content, "schema", "") # "v1" THEN {<<"schema">>} ELSE {})
        \cup (IF models = <<>> THEN {<<"models">>}
              ELSE UNION {
                  {<<"model missing", k, f>> :
                       f \in {"name", "provider", "model", "apiKey"} \ DOMAIN models[k]}
                  \cup (IF Get(models[k], "provider", "") # "together"
                        THEN {<<"provider", k>>} ELSE {})
                  : k \in 1..Len(models)})

\* the errors validate_yaml_content collects (the empty set: it returns None)
validate_yaml_content(yaml_content) ==
    LET models == Get(yaml_content, "models", <<>>)
    IN  {<<"missing", f>> : f \in {"name", "version", "schema", "models"} \ DOMAIN yaml_content}
        \cup (IF Get(yaml_content, "schema", "") # "v1" THEN {<<"schema">>} ELSE {})
        \cup (IF models = <<>> THEN {<<"models">>}
              ELSE UNION {
                  {<<"model missing", k, f>> :
                       f \in {"name", "provider", "model", "apiKey"} \ DOMAIN models[k]}
                  \cup (IF Get(models[k], "provider", "") # "together"
                        THEN {<<"provider", k>>} ELSE {})
                  \cup (IF Get(models[k], "roles", <<>>) = <<>>
                        THEN {<<"roles", k>>} ELSE {})
                  : k \in 1..Len(models)})

NoResult == [kind |-> "none"]
None == [kind |-> "None"]
Skipped == [kind |-> "skipped"]

\* a write that does not look at the status
WrittenFiles_Always(status, filename, yaml_content, dir) ==
    (filename :> yaml_content) @@ dir

\* lines 347-363: the output directory after the write, which is skipped for
\* an unchanged model
WrittenFiles(status, filename, yaml_content, dir) ==
    IF status # "unchanged" THEN (filename :> yaml_content) @@ dir ELSE dir

\* an entry that keeps the version the cache already had for the model
UpdatedCache_StaleVersion(md, version, filename, cache) ==
    LET model_id == Get(md, "id", <<>>)
    IN  model_id :> [hash         |-> generate_model_hash(md),
                     version      |-> IF model_id \in DOMAIN cache
                                      THEN cache[model_id].version ELSE version,
                     filename     |-> filename,
                     display_name |-> Get(md, "display_name", <<>>)]
        @@ cache

\* a cache keyed by the display name instead of the id
UpdatedCache_KeyedByName(md, version, filename, cache) ==
    Get(md, "display_name", <<>>) :> [hash         |-> generate_model_hash(md),
                                      version      |-> version,
                                      filename     |-> filename,
                                      display_name |-> Get(md, "display_name", <<>>)]
    @@ cache

\* lines 365-371: the cache with the entry of the model replaced
UpdatedCache(md, version, filename, cache) ==
    Get(md, "id", <<>>) :> [hash         |-> generate_model_hash(md),
                            version      |-> version,
                            filename     |-> filename,
                            display_name |-> Get(md, "display_name", <<>>)]
    @@ cache

\* lines 215-221 and 601-612, parse_existing_yaml on a file of the output
\* directory.  The file is "---", a newline and the yaml.dump of the document
\* with its keys in insertion order (line 361), so its first line after the
\* marker is the name.  The pattern ^---\n(.*?)$ is searched with re.MULTILINE:
\* the lazy group ends at the first end of line, and yaml.safe_load of that one
\* line gives a mapping with the key name only.
\* a pattern that matches the whole document
parse_existing_yaml_WholeDocument(dir, filepath) == dir[filepath]

\* lines 215-221: the pattern stops at the end of the first line of the
\* document, so the dict holds the name only
parse_existing_yaml(dir, filepath) == "name" :> dir[filepath].name

\* lines 327-328: [r for r in xs if r not in ys]
NotIn(xs, ys) == LET Absent(r) == r \notin Range(ys) IN SelectSeq(xs, Absent)

\* lines 311-345: change_details.  A context length of a previous document is
\* <<n>>, and <<>> for Python's None.
ChangeDetails(md, roles, status, cache, dir) ==
    LET model_id       == Get(md, "id", <<>>)
        context_length == Get(md, "context_length", 0)
        prev_filename  == Get(cache[model_id], "filename", <<>>)
        prev_yaml      == parse_existing_yaml(dir, prev_filename)
        prev_model     == prev_yaml["models"][1]
        prev_roles     == Get(prev_model, "roles", <<>>)
        added_roles    == NotIn(roles, prev_roles)
        removed_roles  == NotIn(prev_roles, roles)
        prev_context_length ==
            IF "defaultCompletionOptions" \in DOMAIN prev_model
               /\ "contextLength" \in DOMAIN prev_model["defaultCompletionOptions"]
            THEN <<prev_model["defaultCompletionOptions"]["contextLength"]>>
            ELSE <<>>
    IN  IF status = "updated" /\ model_id \in DOMAIN cache
           /\ prev_filename # <<>> /\ prev_filename \in DOMAIN dir
           /\ "models" \in DOMAIN prev_yaml /\ Len(prev_yaml["models"]) > 0
        THEN (IF added_roles # <<>> \/ removed_roles # <<>>
              THEN "roles" :> [added |-> added_roles, removed |-> removed_roles]
              ELSE EmptyDict)
             @@ (IF prev_context_length # <<context_length>> /\ context_length > 0
                 THEN "contextLength" :> [old |-> prev_context_length,
                                          new |-> context_length]
                 ELSE EmptyDict)
        ELSE EmptyDict

\* a create_yaml_file that updates the cache before it validates the document
create_yaml_file_CacheFirst(md, cache, dir) ==
    LET display_name == Get(md, "display_name", <<>>)
        model_id     == Get(md, "id", <<>>)
        filename     == sanitize_filename(display_name) \o YamlSuffix
        roles        == determine_roles(md)
        vs           == VersionAndStatus(md, cache)
        yaml_content == YamlContent(md, vs.version, roles)
    IN  IF display_name = <<>> \/ model_id = <<>>
        THEN [result |-> None, cache |-> cache, files |-> dir]
        ELSE IF vs.status # "unchanged" /\ validate_yaml_content(yaml_content) # {}
        THEN [result |-> None,
              cache  |-> UpdatedCache(md, vs.version, filename, cache),
              files  |-> dir]
        ELSE [result |-> [kind         |-> "tuple",
                          filepath     |-> filename,
                          display_name |-> display_name,
                          roles        |-> roles,
                          type         |-> Get(md, "type", "unknown"),
                          status       |-> vs.status,
                          version      |-> vs.version,
                          change_details |->
                              IF vs.status = "updated"
                              THEN ChangeDetails(md, roles, vs.status, cache, dir)
                              ELSE None],
              cache  |-> UpdatedCache(md, vs.version, filename, cache),
              files  |-> WrittenFiles(vs.status, filename, yaml_content, dir)]

\* create_yaml_file(model_data, output_dir, version_cache): what it returns,
\* and the cache and the output directory it leaves
create_yaml_file(md, cache, dir) ==
    LET display_name == Get(md, "display_name", <<>>)
        model_id     == Get(md, "id", <<>>)
        filename     == sanitize_filename(display_name) \o YamlSuffix
        roles        == determine_roles(md)
        vs           == VersionAndStatus(md, cache)
        yaml_content == YamlContent(md, vs.version, roles)
    IN  IF display_name = <<>> \/ model_id = <<>>
        THEN [result |-> None, cache |-> cache, files |-> dir]
        ELSE IF vs.status # "unchanged" /\ validate_yaml_content(yaml_content) # {}
        THEN [result |-> None, cache |-> cache, files |-> dir]
        ELSE [result |-> [kind         |-> "tuple",
                          filepath     |-> filename,
                          display_name |-> display_name,
                          roles        |-> roles,
                          type         |-> Get(md, "type", "unknown"),
                          status       |-> vs.status,
                          version      |-> vs.version,
                          change_details |->
                              IF vs.status = "updated"
                              THEN ChangeDetails(md, roles, vs.status, cache, dir)
                              ELSE None],
              cache  |-> UpdatedCache(md, vs.version, filename, cache),
              files  |-> WrittenFiles(vs.status, filename, yaml_content, dir)]

-----------------------------------------------------------------------------
(* Bounds and inputs of the runs *)

MaxSteps == 4     \* records processed in a behaviour, over all its runs

M1 == <<"m", "1">>
M2 == <<"m", "2">>
Foo == <<"F", "o", "o">>
Ids == {M1, M2}

Free == [input |-> 0, output |-> 0]

\* The records a catalog of a run is made of: a base record for each id and
\* records that differ from it in one field ({} stands for a missing key).
BaseRecord(id) == Record({id}, {Foo}, {"chat"}, {8192}, {})

RunRecords ==
    {BaseRecord(M1),
     Record({M1}, {Mistral7B}, {"chat"}, {8192}, {}),
     Record({M1}, {}, {"chat"}, {8192}, {}),
     Record({M1}, {Foo}, {"image"}, {8192}, {}),
     Record({M1}, {Foo}, {"unknown"}, {8192}, {}),
     Record({M1}, {Foo}, {"chat"}, {0}, {}),
     Record({M1}, {Foo}, {"chat"}, {8192}, {Free}),
     Record({M1}, {Mistral7B}, {"audio"}, {8192}, {}),
     Record({Mistral7B}, {Foo}, {"moderation"}, {8192}, {}),
     Record({M2}, {Mistral7B}, {"multimodal"}, {8192}, {}),
     BaseRecord(M2),
     Record({M2}, {Foo}, {"chat"}, {0}, {})}

\* version strings a ledger file may hold when the first run starts
NotAVersion == <<"n","o","t","-","a","-","v","e","r","s","i","o","n">>
OneDotZero == <<"1", ".", "0">>
ReleaseCandidate == VersionStr(1, 9, 3) \o <<"-", "r", "c", ".", "1">>

\* the ledger entry and the document an earlier run on BaseRecord(id) left,
\* the version in the ledger being v
SeedEntry(id, v) ==
    [hash         |-> generate_model_hash(BaseRecord(id)),
     version      |-> v,
     filename     |-> sanitize_filename(Foo) \o YamlSuffix,
     display_name |-> Foo]

SeedFiles(id, v) ==
    (sanitize_filename(Foo) \o YamlSuffix)
        :> YamlContent(BaseRecord(id), v, determine_roles(BaseRecord(id)))

\* the ledgers the first run may find, with the output directory
SeedStates ==
    {[cache |-> EmptyDict, files |-> EmptyDict],
     [cache |-> (M1 :> SeedEntry(M1, NotAVersion))
                @@ (M2 :> SeedEntry(M2, VersionStr(2, 3, 7))),
      files |-> SeedFiles(M2, VersionStr(2, 3, 7))],
     [cache |-> (M1 :> SeedEntry(M1, OneDotZero))
                @@ (M2 :> SeedEntry(M2, ReleaseCandidate)),
      files |-> SeedFiles(M2, ReleaseCandidate)]}

-----------------------------------------------------------------------------
(* History of an id over the runs: whether, since an empty ledger, every run *)
(* was made without --force-regenerate and processed the id exactly once     *)
(* with a document (clean); then the number n of these runs, the fingerprint *)
(* fp of the latest, whether it differed from the one before (changed), and  *)
(* the number k of runs whose fingerprint differed from the preceding run's. *)

NoHash == generate_model_hash(EmptyDict)

Fresh == [clean |-> TRUE, n |-> 0, k |-> 0, changed |-> FALSE, seen |-> FALSE,
          fp |-> NoHash]
Unclean == [clean |-> FALSE, n |-> 0, k |-> 0, changed |-> FALSE,
            seen |-> FALSE, fp |-> NoHash]

HistAfterModel(h, md, res) ==
    LET id == Get(md, "id", <<>>)
        fp == generate_model_hash(md)
        differs == h[id].n > 0 /\ h[id].fp # fp
    IN  IF id \notin Ids THEN h
        ELSE IF res.kind # "tuple" \/ ~h[id].clean \/ h[id].seen
        THEN [h EXCEPT ![id] = Unclean]
        ELSE [h EXCEPT ![id] =
                 [clean |-> TRUE, n |-> h[id].n + 1,
                  k |-> h[id].k + (IF differs THEN 1 ELSE 0),
                  changed |-> differs, seen |-> TRUE, fp |-> fp]]

HistAfterRun(h) ==
    [id \in Ids |-> IF h[id].clean /\ h[id].seen
                    THEN [h[id] EXCEPT !.seen = FALSE] ELSE Unclean]

-----------------------------------------------------------------------------
(* main(): the runs *)

Init ==
    /\ \E seed \in SeedStates : cache_file = seed.cache /\ files = seed.files
    /\ hist = [id \in Ids |-> IF cache_file = EmptyDict THEN Fresh ELSE Unclean]
    /\ version_cache = EmptyDict
    /\ model_data = EmptyDict
    /\ result = NoResult
    /\ args = [force_regenerate |-> FALSE, skip_free |-> FALSE]
    /\ pc = "idle"
    /\ steps = 0

\* a load that never reads the file
load_version_cache_AlwaysEmpty(force_regenerate) == EmptyDict

\* load_version_cache(), line 454 included
load_version_cache(force_regenerate) ==
    IF force_regenerate THEN EmptyDict ELSE cache_file

\* lines 398-471: a run starts with its options and loads the ledger
StartRun ==
    /\ pc = "idle"
    /\ \E force \in BOOLEAN, skip \in BOOLEAN :
          /\ args' = [force_regenerate |-> force, skip_free |-> skip]
          /\ version_cache' = load_version_cache(force)
          /\ hist' = IF force THEN [id \in Ids |-> Unclean] ELSE hist
    /\ pc' = "loop"
    /\ model_data' = EmptyDict
    /\ result' = NoResult
    /\ UNCHANGED <<cache_file, files, steps>>

\* a skip of image models only
SkippedType_ImageOnly(md) == Get(md, "type", "") = "image"

\* lines 481-494: the records main() skips
SkippedType(md) ==
    Get(md, "type", "") \in {"audio", "image", "moderation", "multimodal"}

SkippedFree(md) ==
    LET pricing == Get(md, "pricing", EmptyDict)
    IN  /\ args.skip_free
        /\ pricing # EmptyDict
        /\ Get(pricing, "input", 0) = 0
        /\ Get(pricing, "output", 0) = 0

\* an iteration that also saves the cache
ProcessModel_SavesEach ==
    /\ pc = "loop"
    /\ steps < MaxSteps
    /\ \E md \in RunRecords :
          LET out == IF SkippedType(md) \/ SkippedFree(md)
                     THEN [result |-> Skipped, cache |-> version_cache,
                           files |-> files]
                     ELSE create_yaml_file(md, version_cache, files)
          IN  /\ model_data' = md
              /\ result' = out.result
              /\ version_cache' = out.cache
              /\ cache_file' = out.cache
              /\ files' = out.files
              /\ hist' = HistAfterModel(hist, md, out.result)
    /\ steps' = steps + 1
    /\ UNCHANGED <<args, pc>>

\* lines 473-512: one iteration of the for loop
ProcessModel ==
    /\ pc = "loop"
    /\ steps < MaxSteps
    /\ \E md \in RunRecords :
          LET out == IF SkippedType(md) \/ SkippedFree(md)
                     THEN [result |-> Skipped, cache |-> version_cache,
                           files |-> files]
                     ELSE create_yaml_file(md, version_cache, files)
          IN  /\ model_data' = md
              /\ result' = out.result
              /\ version_cache' = out.cache
              /\ files' = out.files
              /\ hist' = HistAfterModel(hist, md, out.result)
    /\ steps' = steps + 1
    /\ UNCHANGED <<cache_file, args, pc>>

\* lines 514-515: the loop is over, save_version_cache
SaveCache ==
    /\ pc = "loop"
    /\ cache_file' = version_cache
    /\ hist' = HistAfterRun(hist)
    /\ pc' = "idle"
    /\ version_cache' = EmptyDict
    /\ model_data' = EmptyDict
    /\ result' = NoResult
    /\ UNCHANGED <<files, args, steps>>

\* the process is killed during the loop: nothing is saved
Interrupt ==
    /\ pc = "loop"
    /\ hist' = [id \in Ids |-> Unclean]
    /\ pc' = "idle"
    /\ version_cache' = EmptyDict
    /\ model_data' = EmptyDict
    /\ result' = NoResult
    /\ UNCHANGED <<cache_file, files, args, steps>>

Next == StartRun \/ ProcessModel \/ SaveCache \/ Interrupt

Spec == Init /\ [][Next]_vars

-----------------------------------------------------------------------------
(* determine_roles on its own: one record in, its roles out *)

RoleRecords ==
    {OptField("id", ids) @@ OptField("display_name", names)
     @@ OptField("type", types) @@ OptField("context_length", lengths) :
        ids \in {{}, {M1}, {Mistral7B}},
        names \in {{}, {Foo}, {Mistral7B}, {Gemma2Instruct9B}},
        types \in {{}, {"chat"}, {"language"}, {"embedding"}, {"rerank"},
                   {"image"}, {"audio"}, {"moderation"}, {"multimodal"},
                   {"unknown"}},
        lengths \in {{}, {0}, {4096}, {8191}, {8192}, {32768}}}

InitRoles ==
    /\ model_data \in RoleRecords
    /\ result = NoResult
    /\ cache_file = EmptyDict
    /\ version_cache = EmptyDict
    /\ files = EmptyDict
    /\ args = [force_regenerate |-> FALSE, skip_free |-> FALSE]
    /\ pc = "call"
    /\ steps = 0
    /\ hist = [id \in Ids |-> Unclean]

Classify ==
    /\ pc = "call"
    /\ result' = [kind |-> "roles", roles |-> determine_roles(model_data)]
    /\ pc' = "returned"
    /\ UNCHANGED <<model_data, cache_file, version_cache, files, args, steps,
                   hist>>

NextRoles == Classify

SpecRoles == InitRoles /\ [][NextRoles]_vars

-----------------------------------------------------------------------------
(* create_yaml_file on its own: a call on one record with an empty ledger,   *)
(* then a second call on a record with the same id and the ledger and the    *)
(* output directory the first call left.                                     *)

Description == <<"d">>

\* the empty pricing dict {} is EmptyDict; "description" is a field of the
\* catalog that generate_model_hash does not read
DocRecords ==
    {Record(ids, names, types, lengths, prices) @@ OptField("description", descs) :
        ids \in {{}, {M1}, {Mistral7B}},
        names \in {{}, {Foo}, {Mistral7B}},
        types \in {{}, {"chat"}, {"language"}, {"embedding"}, {"unknown"}},
        lengths \in {{}, {0}, {8192}, {32768}},
        prices \in {{}, {EmptyDict}, {Free}},
        descs \in {{}, {Description}}}

InitDoc ==
    /\ model_data \in DocRecords
    /\ result = NoResult
    /\ cache_file = EmptyDict
    /\ version_cache = EmptyDict
    /\ files = EmptyDict
    /\ args = [force_regenerate |-> FALSE, skip_free |-> FALSE]
    /\ pc = "call"
    /\ steps = 0
    /\ hist = [id \in Ids |-> Unclean]

\* line 497: result = create_yaml_file(model_data, args.output_dir, version_cache)
Generate ==
    /\ pc = "call"
    /\ LET out == create_yaml_file(model_data, version_cache, files)
       IN  /\ result' = out.result
           /\ version_cache' = out.cache
           /\ files' = out.files
    /\ pc' = "returned"
    /\ steps' = steps + 1
    /\ UNCHANGED <<model_data, cache_file, args, hist>>

\* line 497 again, on the state the first call left
Regenerate ==
    /\ pc = "returned"
    /\ result.kind \in {"tuple", "None"}
    /\ \E md \in DocRecords :
          /\ Get(md, "id", <<>>) = Get(model_data, "id", <<>>)
          /\ LET out == create_yaml_file(md, version_cache, files)
             IN  /\ model_data' = md
                 /\ result' = out.result
                 /\ version_cache' = out.cache
                 /\ files' = out.files
    /\ pc' = "done"
    /\ steps' = steps + 1
    /\ UNCHANGED <<cache_file, args, hist>>

NextDoc == Classify \/ Generate \/ Regenerate

SpecDoc == InitDoc /\ [][NextDoc]_vars

-----------------------------------------------------------------------------
(* sanitize_filename on its own: one display name in, its token out *)

MaxNameLen == 4     \* length of the enumerated display names

\* an upper case letter, a lower case letter, a digit, the space, the three
\* characters the function keeps, a bracket and another unsafe character
NameChars == {"A", "b", "7", " ", "-", "_", ".", "(", "/"}

DisplayNames ==
    UNION {[1..n -> NameChars] : n \in 0..MaxNameLen} \cup AUTOCOMPLETE_MODELS

InitSanitize ==
    /\ model_data \in {"display_name" :> n : n \in DisplayNames}
    /\ result = NoResult
    /\ cache_file = EmptyDict
    /\ version_cache = EmptyDict
    /\ files = EmptyDict
    /\ args = [force_regenerate |-> FALSE, skip_free |-> FALSE]
    /\ pc = "call"
    /\ steps = 0
    /\ hist = [id \in Ids |-> Unclean]

\* line 249: sanitize_filename(display_name)
Sanitize ==
    /\ pc = "call"
    /\ result' = [kind     |-> "filename",
                  filename |-> sanitize_filename(model_data["display_name"])]
    /\ pc' = "returned"
    /\ UNCHANGED <<model_data, cache_file, version_cache, files, args, steps,
                   hist>>

NextSanitize == Sanitize

SpecSanitize == InitSanitize /\ [][NextSanitize]_vars

-----------------------------------------------------------------------------
(* main() run again on the same input: a catalog and the options are chosen  *)
(* once; a first run may be killed in its loop; then the same command is run *)
(* to its end, and once more.                                                *)

MaxCatalog == 2     \* number of records of the catalog
MaxReruns == 2      \* runs that reach the end

\* the records of the catalogs: those of the runs, with one skipped type
RerunRecords ==
    {md \in RunRecords :
        /\ "display_name" \in DOMAIN md
        /\ md["type"] \notin {"image", "moderation", "multimodal"}}

Catalogs == UNION {[1..n -> RerunRecords] : n \in 0..MaxCatalog}

\* hist holds here: the ledger and the output directory before the first run
\* (start), whether a run was killed and the output directory it left
\* (partial), the number of runs that reached the end, the number i of
\* records the for loop of the current run has taken, and the results of the
\* current or last run, one for each record taken.
InitRerun ==
    /\ \E seed \in SeedStates : cache_file = seed.cache /\ files = seed.files
    /\ \E force \in BOOLEAN, skip \in BOOLEAN, catalog \in Catalogs :
          args = [force_regenerate |-> force, skip_free |-> skip,
                  models_data |-> catalog]
    /\ hist = [start |-> [cache |-> cache_file, files |-> files],
               interrupted |-> FALSE, partial |-> files, completed |-> 0,
               i |-> 0, results |-> <<>>]
    /\ version_cache = EmptyDict
    /\ model_data = EmptyDict
    /\ result = NoResult
    /\ pc = "idle"
    /\ steps = 0

\* lines 412-471: the command is started again, line 454 loads the ledger
StartAgain ==
    /\ pc = "idle"
    /\ hist.completed < MaxReruns
    /\ version_cache' = load_version_cache(args.force_regenerate)
    /\ hist' = [hist EXCEPT !.i = 0, !.results = <<>>]
    /\ pc' = "loop"
    /\ model_data' = EmptyDict
    /\ result' = NoResult
    /\ UNCHANGED <<cache_file, files, args, steps>>

\* lines 473-512: the iteration of the for loop on the next record of the input
ProcessNext ==
    /\ pc = "loop"
    /\ hist.i < Len(args.models_data)
    /\ LET md  == args.models_data[hist.i + 1]
           out == IF SkippedType(md) \/ SkippedFree(md)
                  THEN [result |-> Skipped, cache |-> version_cache,
                        files |-> files]
                  ELSE create_yaml_file(md, version_cache, files)
       IN  /\ model_data' = md
           /\ result' = out.result
           /\ version_cache' = out.cache
           /\ files' = out.files
           /\ hist' = [hist EXCEPT !.i = @ + 1,
                                   !.results = Append(@, out.result)]
    /\ steps' = steps + 1
    /\ UNCHANGED <<cache_file, args, pc>>

\* lines 514-515: the for loop is over, save_version_cache
SaveAtEnd ==
    /\ pc = "loop"
    /\ hist.i = Len(args.models_data)
    /\ cache_file' = version_cache
    /\ hist' = [hist EXCEPT !.completed = @ + 1]
    /\ pc' = "idle"
    /\ version_cache' = EmptyDict
    /\ model_data' = EmptyDict
    /\ result' = NoResult
    /\ UNCHANGED <<files, args, steps>>

\* the first run is killed before line 515: nothing is saved
InterruptFirst ==
    /\ pc = "loop"
    /\ hist.completed = 0 /\ ~hist.interrupted
    /\ hist' = [hist EXCEPT !.interrupted = TRUE, !.partial = files]
    /\ pc' = "idle"
    /\ version_cache' = EmptyDict
    /\ model_data' = EmptyDict
    /\ result' = NoResult
    /\ UNCHANGED <<cache_file, files, args, steps>>

NextRerun == StartAgain \/ ProcessNext \/ SaveAtEnd \/ InterruptFirst

SpecRerun == InitRerun /\ [][NextRerun]_vars

-----------------------------------------------------------------------------
(* Properties of the runs (specification Spec) *)

Version_1_0_0 == <<"1", ".", "0", ".", "0">>
Version_2_4_0 == <<"2", ".", "4", ".", "0">>

\* the valid versions of the model with the version the claims expect after
\* them: major.minor.patch gives major.(minor+1).0
PlainVersions ==
    {[str |-> VersionStr(a, b, c), next |-> VersionStr(a, b + 1, 0)] :
        a \in 0..3, b \in 0..16, c \in 0..9}
    \cup {[str |-> ReleaseCandidate, next |-> VersionStr(1, 10, 0)]}

\* the same as a function from the version to the version expected after it
ExpectedNext ==
    [v \in {pv.str : pv \in PlainVersions} |->
        (CHOOSE pv \in PlainVersions : pv.str = v).next]

Malformed(v) == v \notin DOMAIN ExpectedNext

\* a step of the for loop that called create_yaml_file on model_data'
Called == steps' = steps + 1 /\ result'.kind # "skipped"
\* ... and in which it returned its tuple
Returned == Called /\ result'.kind = "tuple"
ProcessedId == Get(model_data', "id", <<>>)
StoredBefore == version_cache[ProcessedId]
HashDiffers == generate_model_hash(model_data') # StoredBefore.hash

\* C1: from an empty ledger, over runs without --force-regenerate that each
\* process the id exactly once with a valid document, the first run returns
\* created and 1.0.0, a later run returns unchanged when the fingerprint is
\* that of the preceding run and updated when it is not, the version returned
\* and stored is 1.k.0 for the number k of runs whose fingerprint differed from
\* the preceding run's, and 1.k.0 is what the saved ledger holds after the run.
C1_RunSequence ==
    \A id \in Ids :
        hist[id].clean =>
            /\ (pc = "loop" /\ hist[id].seen) =>
                   /\ id \in DOMAIN version_cache
                   /\ version_cache[id].version = VersionStr(1, hist[id].k, 0)
            /\ (pc = "loop" /\ hist[id].seen /\ result.kind = "tuple"
                    /\ Get(model_data, "id", <<>>) = id) =>
                   /\ result.status = IF hist[id].n = 1 THEN "created"
                                      ELSE IF hist[id].changed THEN "updated"
                                      ELSE "unchanged"
                   /\ result.version = VersionStr(1, hist[id].k, 0)
            /\ (pc = "idle" /\ hist[id].n >= 1) =>
                   /\ id \in DOMAIN cache_file
                   /\ cache_file[id].version = VersionStr(1, hist[id].k, 0)

\* three runs of one id are over, one of them with a changed fingerprint and
\* one with the fingerprint of the run before
C1_Witness ==
    \E id \in Ids :
        /\ pc = "idle" /\ hist[id].clean /\ hist[id].n = 3 /\ hist[id].k = 1
        /\ cache_file[id].version = <<"1", ".", "1", ".", "0">>

\* C2: a record whose id is not in the ledger, and for which create_yaml_file
\* returns its tuple, gets status created and version 1.0.0, the document is
\* written with version 1.0.0, and the ledger then holds for the id the
\* record's fingerprint, version 1.0.0, the file name and the display name.
C2_Step ==
    (Returned /\ ProcessedId \notin DOMAIN version_cache) =>
        /\ result'.status = "created"
        /\ result'.version = Version_1_0_0
        /\ ProcessedId \in DOMAIN version_cache'
        /\ version_cache'[ProcessedId] =
               [hash         |-> generate_model_hash(model_data'),
                version      |-> Version_1_0_0,
                filename     |-> result'.filepath,
                display_name |-> model_data'["display_name"]]
        /\ result'.filepath \in DOMAIN files'
        /\ files'[result'.filepath].version = Version_1_0_0
        /\ files'[result'.filepath].models[1]["model"] = ProcessedId

C2_Created == [][C2_Step]_vars

C2_Witness ==
    /\ pc = "loop" /\ result.kind = "tuple" /\ result.status = "created"
    /\ Get(model_data, "id", <<>>) \notin DOMAIN cache_file
    /\ version_cache[model_data["id"]].version = Version_1_0_0

\* C3: a record whose id is in the ledger with the fingerprint of the record
\* gets status unchanged and the stored version, and the call leaves the output
\* directory as it was.
C3_Step ==
    (Called /\ ProcessedId \in DOMAIN version_cache /\ ~HashDiffers) =>
        /\ result'.kind = "tuple"
        /\ result'.status = "unchanged"
        /\ result'.version = StoredBefore.version
        /\ files' = files

C3_Unchanged == [][C3_Step]_vars

\* an unchanged model whose file name holds the document of another id
C3_Witness ==
    /\ pc = "loop" /\ result.kind = "tuple" /\ result.status = "unchanged"
    /\ result.filepath \in DOMAIN files
    /\ files[result.filepath].models[1]["model"] # model_data["id"]

\* C4: a record whose id is in the ledger with a valid version
\* major.minor.patch and another fingerprint gets status updated and version
\* major.(minor+1).0.
C4_Step ==
    (Returned /\ ProcessedId \in DOMAIN version_cache /\ HashDiffers) =>
        (StoredBefore.version \in DOMAIN ExpectedNext =>
            /\ result'.status = "updated"
            /\ result'.version = ExpectedNext[StoredBefore.version])

C4_MinorBump == [][C4_Step]_vars

\* 2.3.7 became 2.4.0
C4_Witness ==
    /\ pc = "loop" /\ result.kind = "tuple" /\ result.status = "updated"
    /\ result.version = Version_2_4_0
    /\ ~args.force_regenerate
    /\ model_data["id"] \in DOMAIN cache_file
    /\ cache_file[model_data["id"]].version = VersionStr(2, 3, 7)

\* C5: a record whose id is in the ledger with a version string that is no
\* valid semantic version, and with another fingerprint, gets status updated
\* and version 1.0.0, and the for loop goes on.
C5_Step ==
    (Returned /\ ProcessedId \in DOMAIN version_cache /\ HashDiffers
        /\ Malformed(StoredBefore.version)) =>
        /\ result'.status = "updated"
        /\ result'.version = Version_1_0_0
        /\ pc' = "loop"

C5_InvalidVersionReset == [][C5_Step]_vars

C5_Witness ==
    /\ pc = "loop" /\ result.kind = "tuple" /\ result.status = "updated"
    /\ result.version = Version_1_0_0
    /\ ~args.force_regenerate
    /\ model_data["id"] \in DOMAIN cache_file
    /\ cache_file[model_data["id"]].version = NotAVersion

\* C6 as claimed: once create_yaml_file has processed a record whose ledger
\* entry held a malformed version, the entry holds 1.0.0, whatever the status.
C6_OriginalStep ==
    (Returned /\ ProcessedId \in DOMAIN version_cache
        /\ Malformed(StoredBefore.version)) =>
        version_cache'[ProcessedId].version = Version_1_0_0

C6_Original == [][C6_OriginalStep]_vars

\* C6 as amended: the entry holds 1.0.0 when the status is updated; when the
\* status is unchanged the entry keeps the malformed version it had.
C6_AmendedStep ==
    (Returned /\ ProcessedId \in DOMAIN version_cache
        /\ Malformed(StoredBefore.version)) =>
        /\ result'.status \in {"updated", "unchanged"}
        /\ result'.status = "updated" =>
               version_cache'[ProcessedId].version = Version_1_0_0
        /\ result'.status = "unchanged" =>
               version_cache'[ProcessedId].version = StoredBefore.version

C6_Amended == [][C6_AmendedStep]_vars

C6_Witness ==
    /\ pc = "loop" /\ result.kind = "tuple" /\ result.status = "updated"
    /\ ~args.force_regenerate
    /\ model_data["id"] \in DOMAIN cache_file
    /\ cache_file[model_data["id"]].version = OneDotZero
    /\ version_cache[model_data["id"]].version = Version_1_0_0

\* C13: a step of the for loop on a record with id A leaves the ledger entries
\* of all other ids as they were (those with A's display name included) and
\* adds no entry but A's; the status and the version returned are determined
\* by the record and A's own entry: created and 1.0.0 when A has no entry,
\* unchanged and the stored version when the entry has the record's
\* fingerprint, updated and the increment of the stored version otherwise.
C13_Step ==
    (steps' = steps + 1) =>
        /\ \A other \in DOMAIN version_cache \ {ProcessedId} :
               /\ other \in DOMAIN version_cache'
               /\ version_cache'[other] = version_cache[other]
        /\ DOMAIN version_cache' \subseteq DOMAIN version_cache \cup {ProcessedId}
        /\ Returned =>
               IF ProcessedId \notin DOMAIN version_cache
               THEN result'.status = "created" /\ result'.version = Version_1_0_0
               ELSE IF ~HashDiffers
               THEN /\ result'.status = "unchanged"
                    /\ result'.version = StoredBefore.version
               ELSE /\ result'.status = "updated"
                    /\ result'.version =
                           IF Malformed(StoredBefore.version) THEN Version_1_0_0
                           ELSE ExpectedNext[StoredBefore.version]

C13_KeyedById == [][C13_Step]_vars

\* M1 is created while M2, which has the same display name, has an entry at
\* version 1.1.0, and M2's entry stays
C13_Witness ==
    /\ pc = "loop" /\ result.kind = "tuple" /\ result.status = "created"
    /\ Get(model_data, "id", <<>>) = M1
    /\ M2 \in DOMAIN version_cache
    /\ version_cache[M2].display_name = Get(model_data, "display_name", <<>>)
    /\ version_cache[M2].version = VersionStr(1, 1, 0)
    /\ version_cache[M1].version = Version_1_0_0

\* C14 as claimed: whatever the options of the runs, an id that is in the
\* persisted ledger stays in the persisted ledger.
C14_OriginalStep == DOMAIN cache_file \subseteq DOMAIN cache_file'

C14_Original == [][C14_OriginalStep]_vars

\* C14 as amended: a run made without --force-regenerate leaves in the
\* persisted ledger every id that was in it, also the ids its input does not
\* hold.
C14_AmendedStep ==
    (cache_file' # cache_file /\ ~args.force_regenerate) =>
        DOMAIN cache_file \subseteq DOMAIN cache_file'

C14_Amended == [][C14_AmendedStep]_vars

\* one record was processed in all, of M1, by a run without --force-regenerate
\* that saved M1's new version, and the ledger still holds M2
C14_Witness ==
    /\ pc = "idle" /\ steps = 1 /\ ~args.force_regenerate
    /\ M1 \in DOMAIN cache_file /\ M2 \in DOMAIN cache_file
    /\ cache_file[M1].version = Version_1_0_0
    /\ cache_file[M2].version = VersionStr(2, 3, 7)

\* C15: the ledger is loaded when the run starts and at no other step; the
\* persisted ledger stays as it was at every step of the for loop; it changes
\* only at the step that ends the run, where it becomes the whole in-memory
\* ledger; a run that ends without that save leaves it as it was.
C15_Step ==
    /\ pc = "idle" =>
           /\ cache_file' = cache_file
           /\ pc' = "loop" =>
                  version_cache' = IF args'.force_regenerate THEN EmptyDict
                                   ELSE cache_file
    /\ (pc = "loop" /\ pc' = "loop") => cache_file' = cache_file
    /\ (pc = "loop" /\ pc' = "idle") =>
           cache_file' = cache_file \/ cache_file' = version_cache

C15_LoadOnceSaveOnce == [][C15_Step]_vars

\* in the middle of a run without --force-regenerate that found an empty
\* ledger: two ids have their entries in memory, their document is written,
\* and the persisted ledger is still empty
C15_Witness ==
    /\ pc = "loop" /\ ~args.force_regenerate /\ cache_file = EmptyDict
    /\ result.kind = "tuple" /\ result.status = "created"
    /\ DOMAIN version_cache = {M1, M2}
    /\ result.filepath \in DOMAIN files

RoleTypes == {"chat", "language", "embedding", "rerank", "image", "audio",
              "moderation"}

\* the record has a display name and an id, and no role: its type has none and
\* it is not allowlisted
EmptyRoleSet(md) ==
    /\ Get(md, "display_name", <<>>) # <<>>
    /\ Get(md, "id", <<>>) # <<>>
    /\ Get(md, "type", "") \notin RoleTypes
    /\ Get(md, "display_name", <<>>) \notin AUTOCOMPLETE_MODELS
    /\ Get(md, "id", <<>>) \notin AUTOCOMPLETE_MODELS

\* C16: when create_yaml_file is called on a record whose document has an
\* empty role list, it returns None, the output directory and the whole
\* in-memory ledger are as before the call (an absent entry stays absent, an
\* existing entry keeps its fingerprint and version), and the for loop goes on.
\* Whenever create_yaml_file returns None the ledger and the output directory
\* are as before the call.
C16_Step ==
    /\ (Called /\ EmptyRoleSet(model_data')) =>
           /\ result'.kind = "None"
           /\ pc' = "loop"
    /\ (Called /\ result'.kind = "None") =>
           /\ files' = files
           /\ version_cache' = version_cache
           /\ pc' = "loop"

C16_ValidationSkip == [][C16_Step]_vars

\* a record of unknown type whose id has an entry with another fingerprint:
\* the call returned None and the entry is the one the run loaded
C16_Witness ==
    /\ pc = "loop" /\ result.kind = "None" /\ ~args.force_regenerate
    /\ EmptyRoleSet(model_data)
    /\ Get(model_data, "id", <<>>) = M1
    /\ M1 \in DOMAIN version_cache
    /\ version_cache[M1] = SeedEntry(M1, NotAVersion)
    /\ version_cache[M1].hash # generate_model_hash(model_data)

\* the validation gate, stated on a document
PassesGate(doc) ==
    /\ {"name", "version", "schema", "models"} \subseteq DOMAIN doc
    /\ doc.schema = "v1"
    /\ Len(doc.models) >= 1
    /\ \A k \in 1..Len(doc.models) :
           /\ {"name", "provider", "model", "apiKey", "roles"}
                  \subseteq DOMAIN doc.models[k]
           /\ doc.models[k]["provider"] = "together"
           /\ Len(doc.models[k]["roles"]) >= 1

\* C17: every document of the output directory, those of earlier runs and
\* those the run has written, has name, version, schema and models, the schema
\* tag v1, and a model entry with name, provider together, model, apiKey and a
\* role list that is not empty.
C17_WrittenDocumentsValid ==
    \A f \in DOMAIN files : PassesGate(files[f])

\* the run has just written the document of an updated model
C17_Witness ==
    /\ pc = "loop" /\ result.kind = "tuple" /\ result.status = "updated"
    /\ result.filepath \in DOMAIN files
    /\ files[result.filepath].version = result.version
    /\ files[result.filepath].models[1]["model"] = Get(model_data, "id", <<>>)
    /\ files[result.filepath].models[1]["roles"] = <<"chat">>

\* C21: a step of the for loop on a record of type image, audio, moderation or
\* multimodal, allowlisted or not, only skips the record: create_yaml_file is
\* not called, and the output directory, the in-memory ledger and the
\* persisted ledger are as before.
C21_Step ==
    (steps' = steps + 1
        /\ Get(model_data', "type", "")
               \in {"image", "audio", "moderation", "multimodal"}) =>
        /\ result'.kind = "skipped"
        /\ files' = files
        /\ version_cache' = version_cache
        /\ cache_file' = cache_file
        /\ pc' = "loop"

C21_TypeExclusion == [][C21_Step]_vars

\* an audio model with an allowlisted display name, whose id has a ledger
\* entry with another fingerprint, was skipped and the entry is as it was
C21_Witness ==
    /\ pc = "loop" /\ result.kind = "skipped" /\ ~args.force_regenerate
    /\ Get(model_data, "type", "") = "audio"
    /\ Get(model_data, "display_name", <<>>) \in AUTOCOMPLETE_MODELS
    /\ Get(model_data, "id", <<>>) = M1
    /\ M1 \in DOMAIN version_cache
    /\ version_cache[M1] = SeedEntry(M1, OneDotZero)

\* the ChangeSummary of the step, None when there is none
Summary == result'.change_details
RolesAdded(cd) == IF "roles" \in DOMAIN cd THEN cd["roles"].added ELSE <<>>
RolesRemoved(cd) == IF "roles" \in DOMAIN cd THEN cd["roles"].removed ELSE <<>>
\* the document the ledger entry of the id named before the step, when the
\* output directory held it
PreviousLocated ==
    /\ ProcessedId \in DOMAIN version_cache
    /\ StoredBefore.filename \in DOMAIN files
PreviousDocument == files[StoredBefore.filename]
Updated == Returned /\ result'.status = "updated"

\* C22: when a record gets status updated and the output directory holds the
\* document its ledger entry names, the roles added of the ChangeSummary are
\* the new roles that the previous document does not have and the roles
\* removed are the roles of the previous document that are not among the new
\* ones; when the directory does not hold that document the summary is empty,
\* and the new document is written and the ledger entry updated; a record
\* with status created or unchanged gets no ChangeSummary.
C22_Step ==
    /\ (Updated /\ PreviousLocated) =>
           /\ Range(RolesAdded(Summary))
                  = Range(result'.roles) \ Range(PreviousDocument.models[1]["roles"])
           /\ Range(RolesRemoved(Summary))
                  = Range(PreviousDocument.models[1]["roles"]) \ Range(result'.roles)
    /\ (Updated /\ ~PreviousLocated) =>
           /\ Summary = EmptyDict
           /\ files'[result'.filepath].version = result'.version
           /\ version_cache'[ProcessedId].version = result'.version
    /\ (Returned /\ result'.status # "updated") => Summary = None

C22_RoleChanges == [][C22_Step]_vars

\* the context length of a document: <<n>>, and <<>> without context block
DocumentContext(doc) ==
    IF "defaultCompletionOptions" \in DOMAIN doc.models[1]
    THEN <<doc.models[1]["defaultCompletionOptions"].contextLength>>
    ELSE <<>>

\* C23: when a record gets status updated and the output directory holds the
\* document its ledger entry names, the ChangeSummary has a context-length
\* entry exactly when the context length of that document differs from the
\* record's context_length, and the entry holds the two values.
C23_Step ==
    (Updated /\ PreviousLocated) =>
        LET old == DocumentContext(PreviousDocument)
            new == Get(model_data', "context_length", 0)
        IN  /\ "contextLength" \in DOMAIN Summary <=> old # <<new>>
            /\ "contextLength" \in DOMAIN Summary =>
                   Summary["contextLength"] = [old |-> old, new |-> new]

C23_ContextLengthChange == [][C23_Step]_vars

\* Semantic-version order on the valid versions of the model: the key of
\* major.minor.patch is <<major, minor, patch, 1>>, a prerelease comes before
\* its release.
SemverKey ==
    [v \in DOMAIN ExpectedNext |->
        IF v = ReleaseCandidate THEN <<1, 9, 3, 0>>
        ELSE LET pv == CHOOSE t \in (0..3) \X (0..16) \X (0..9) :
                           v = VersionStr(t[1], t[2], t[3])
             IN  <<pv[1], pv[2], pv[3], 1>>]

\* x comes before y in the lexicographic order of the keys
KeyBefore(x, y) ==
    \E k \in 1..4 : x[k] < y[k] /\ \A j \in 1..(k - 1) : x[j] = y[j]

AllValid(cache) == \A id \in DOMAIN cache : ~Malformed(cache[id].version)

NeverDecreases ==
    \A id \in DOMAIN cache_file \cap DOMAIN cache_file' :
        /\ ~Malformed(cache_file'[id].version)
        /\ ~KeyBefore(SemverKey[cache_file'[id].version],
                      SemverKey[cache_file[id].version])

\* C26 as claimed: whatever the options of the runs, once the versions of the
\* persisted ledger are valid the version of an id in it never decreases in
\* semantic-version order.
C26_OriginalStep == AllValid(cache_file) => NeverDecreases

C26_AmendedStep ==
    (AllValid(cache_file) /\ ~args'.force_regenerate) => NeverDecreases

-----------------------------------------------------------------------------
(* Properties of determine_roles (specification SpecRoles) *)

RolesReturned == pc = "returned" /\ result.kind = "roles"
ContextLength == Get(model_data, "context_length", 0)
Allowlisted ==
    \/ Get(model_data, "display_name", <<>>) \in AUTOCOMPLETE_MODELS
    \/ Get(model_data, "id", <<>>) \in AUTOCOMPLETE_MODELS
HasRole(r) == \E k \in 1..Len(result.roles) : result.roles[k] = r

\* C7: a record with a context_length below 8192 (0 and missing included), of
\* any type, allowlisted or not, does not get the role apply.
C7_NoApplyBelowMinimum ==
    (RolesReturned /\ ContextLength < 8192) => ~HasRole("apply")

C7_Witness ==
    /\ RolesReturned /\ ContextLength = 8191 /\ Allowlisted
    /\ Get(model_data, "type", "") = "chat" /\ HasRole("chat") /\ ~HasRole("apply")

\* C8 as claimed: a record of type chat or language gets chat and edit,
\* whatever its context_length.
C8_Original ==
    (RolesReturned /\ Get(model_data, "type", "") \in {"chat", "language"}) =>
        HasRole("chat") /\ HasRole("edit")

\* C8 as amended: a record of type chat or language gets chat whatever its
\* context_length, and gets edit exactly when its context_length is at least
\* 8192.
C8_Amended ==
    (RolesReturned /\ Get(model_data, "type", "") \in {"chat", "language"}) =>
        /\ HasRole("chat")
        /\ HasRole("edit") <=> ContextLength >= 8192

C8_Witness ==
    /\ RolesReturned /\ Get(model_data, "type", "") = "language"
    /\ ContextLength = 4096 /\ HasRole("chat") /\ ~HasRole("edit")

\* C9: a record whose display name or id is in AUTOCOMPLETE_MODELS gets the
\* role autocomplete, whatever its type and its context_length.
C9_AllowlistedGetAutocomplete ==
    (RolesReturned /\ Allowlisted) => HasRole("autocomplete")

\* an image model allowlisted by its id only, without a context length
C9_Witness ==
    /\ RolesReturned /\ Get(model_data, "type", "") = "image"
    /\ Get(model_data, "id", <<>>) \in AUTOCOMPLETE_MODELS
    /\ Get(model_data, "display_name", <<>>) \notin AUTOCOMPLETE_MODELS
    /\ "context_length" \notin DOMAIN model_data
    /\ HasRole("autocomplete")

\* C10: a record that gets the role autocomplete has its display name or its
\* id in AUTOCOMPLETE_MODELS.
C10_OnlyAllowlisted ==
    (RolesReturned /\ HasRole("autocomplete")) => Allowlisted

C10_Witness ==
    /\ RolesReturned /\ HasRole("autocomplete")
    /\ Get(model_data, "type", "") = "language"
    /\ Get(model_data, "display_name", <<>>) = Gemma2Instruct9B

\* C11: a record that is not allowlisted and whose type is not chat or language
\* gets exactly the one role of its type (embedding -> embed, rerank -> rerank,
\* image -> image, audio -> audio, moderation -> moderation), and no role at all
\* for any other type or a missing type, whatever its context_length.
C11_OtherTypes ==
    (RolesReturned /\ ~Allowlisted
        /\ Get(model_data, "type", "") \notin {"chat", "language"}) =>
        LET t == Get(model_data, "type", "")
        IN  /\ t = "embedding"  => result.roles = <<"embed">>
            /\ t = "rerank"     => result.roles = <<"rerank">>
            /\ t = "image"      => result.roles = <<"image">>
            /\ t = "audio"      => result.roles = <<"audio">>
            /\ t = "moderation" => result.roles = <<"moderation">>
            /\ t \notin {"embedding", "rerank", "image", "audio", "moderation"}
                   => result.roles = <<>>

\* an embedding model with a large context, not allowlisted
C11_Witness ==
    /\ RolesReturned /\ ~Allowlisted
    /\ Get(model_data, "type", "") = "embedding" /\ ContextLength = 32768
    /\ result.roles = <<"embed">>

-----------------------------------------------------------------------------
(* Properties of create_yaml_file (specification SpecDoc) *)

IsAllowlisted(md) ==
    \/ Get(md, "display_name", <<>>) \in AUTOCOMPLETE_MODELS
    \/ Get(md, "id", <<>>) \in AUTOCOMPLETE_MODELS

\* the step is a call of determine_roles or of create_yaml_file
CallStep == pc' # pc
\* the document the output directory holds for the record after the call
DocumentAfter == files'[result'.filepath]
HasContextBlock(doc) == "defaultCompletionOptions" \in DOMAIN doc.models[1]

FullRoles == <<"apply", "autocomplete", "chat", "edit">>

\* C12: for an allowlisted record of type chat or language with a
\* context_length of at least 8192, determine_roles returns exactly
\* [apply, autocomplete, chat, edit], create_yaml_file returns these roles, and
\* the document generated for the record has these roles and a context block
\* whose contextLength is the record's context_length.
C12_Step ==
    (CallStep /\ IsAllowlisted(model_data')
        /\ Get(model_data', "type", "") \in {"chat", "language"}
        /\ Get(model_data', "context_length", 0) >= 8192) =>
        /\ result'.kind = "roles" => result'.roles = FullRoles
        /\ result'.kind = "tuple" =>
               /\ result'.roles = FullRoles
               /\ result'.filepath \in DOMAIN files'
               /\ DocumentAfter.models[1]["roles"] = FullRoles
               /\ HasContextBlock(DocumentAfter)
               /\ DocumentAfter.models[1]["defaultCompletionOptions"]
                      = [contextLength |-> model_data'["context_length"]]

C12_EndToEnd == [][C12_Step]_vars

\* a chat model allowlisted by its display name, with a context of 8192
C12_Witness ==
    /\ pc = "returned" /\ result.kind = "tuple" /\ result.status = "created"
    /\ Get(model_data, "display_name", <<>>) = Mistral7B
    /\ Get(model_data, "id", <<>>) = M1
    /\ Get(model_data, "type", "") = "chat"
    /\ Get(model_data, "context_length", 0) = 8192
    /\ result.roles = FullRoles
    /\ files[result.filepath].models[1]["defaultCompletionOptions"]
           = [contextLength |-> 8192]

\* C18: the document generated for a record has the context block exactly
\* when the record's context_length is greater than 0, and the block's
\* contextLength is then the context_length; a record of type chat or language
\* with a display name and an id whose context_length is 0 or missing gets its
\* tuple and its document.
C18_Step ==
    /\ (Called /\ result'.kind = "tuple") =>
           /\ result'.filepath \in DOMAIN files'
           /\ DocumentAfter.models[1]["model"] = Get(model_data', "id", <<>>)
           /\ HasContextBlock(DocumentAfter)
                  <=> Get(model_data', "context_length", 0) > 0
           /\ HasContextBlock(DocumentAfter) =>
                  DocumentAfter.models[1]["defaultCompletionOptions"]
                      = [contextLength |-> model_data'["context_length"]]
    /\ (Called /\ Get(model_data', "type", "") \in {"chat", "language"}
           /\ Get(model_data', "context_length", 0) = 0
           /\ Get(model_data', "display_name", <<>>) # <<>>
           /\ Get(model_data', "id", <<>>) # <<>>) =>
           result'.kind = "tuple"

C18_ContextBlock == [][C18_Step]_vars

\* a language model without context_length whose document was generated
\* without the block, after a first document of the id that had it
C18_Witness ==
    /\ pc = "done" /\ result.kind = "tuple" /\ result.status = "updated"
    /\ Get(model_data, "type", "") = "language"
    /\ "context_length" \notin DOMAIN model_data
    /\ result.filepath \in DOMAIN files
    /\ files[result.filepath].version = VersionStr(1, 1, 0)
    /\ ~HasContextBlock(files[result.filepath])

\* the four fields with the defaults of a missing key
SameHashedFields(a, b) ==
    /\ Get(a, "display_name", <<>>) = Get(b, "display_name", <<>>)
    /\ Get(a, "type", "") = Get(b, "type", "")
    /\ Get(a, "context_length", 0) = Get(b, "context_length", 0)
    /\ Get(a, "pricing", EmptyDict) = Get(b, "pricing", EmptyDict)

\* C19: when create_yaml_file has returned its tuple for a record and is called
\* next on a record with the same id for which it returns its tuple too, the
\* fingerprint stored for the second equals the one stored for the first
\* exactly when display_name, type, context_length and pricing are equal (a
\* missing key counting as its default); the status is then unchanged, and it
\* is updated when one of them differs, whatever the other fields are.
C19_Step ==
    (pc = "returned" /\ result.kind = "tuple" /\ pc' = "done"
        /\ result'.kind = "tuple"
        /\ Get(model_data', "id", <<>>) = Get(model_data, "id", <<>>)) =>
        /\ (version_cache'[ProcessedId].hash = version_cache[ProcessedId].hash)
               <=> SameHashedFields(model_data, model_data')
        /\ SameHashedFields(model_data, model_data') =>
               result'.status = "unchanged"
        /\ ~SameHashedFields(model_data, model_data') =>
               result'.status = "updated"

C19_FieldScoped == [][C19_Step]_vars

\* the second record of the id has another display name: it is updated, and
\* the document of the first is still in the directory under the other name
C19_Witness ==
    /\ pc = "done" /\ result.kind = "tuple" /\ result.status = "updated"
    /\ "description" \in DOMAIN model_data
    /\ \E f \in DOMAIN files :
           /\ f # result.filepath
           /\ files[f].models[1]["model"] = Get(model_data, "id", <<>>)
           /\ files[f].name # Get(model_data, "display_name", <<>>)

\* the document assembled for a record, the version left aside: name, model
\* id, context block and roles
Assembled(md) == YamlContent(md, DefaultVersion, determine_roles(md))

\* create_yaml_file has returned its tuple for model_data, which left the
\* ledger entry, and returns it now for model_data' of the same id
SecondCall ==
    /\ pc = "returned" /\ result.kind = "tuple" /\ pc' = "done"
    /\ result'.kind = "tuple"
    /\ Get(model_data', "id", <<>>) = Get(model_data, "id", <<>>)

SameTypeAndPricing(a, b) ==
    /\ Get(a, "type", "") = Get(b, "type", "")
    /\ Get(a, "pricing", EmptyDict) = Get(b, "pricing", EmptyDict)

\* C27 as claimed: a record gets status updated only if the document assembled
\* for it differs from the document assembled from the record that produced
\* its ledger entry.
C27_OriginalStep ==
    (SecondCall /\ result'.status = "updated") =>
        Assembled(model_data') # Assembled(model_data)

C27_Original == [][C27_OriginalStep]_vars

\* C27 as amended: a record gets status updated only if the assembled document
\* or the type or the pricing differs from those of the record that produced
\* its ledger entry; a change that leaves the document identical bumps the
\* version exactly when it changes the type or the pricing.
C27_AmendedStep ==
    SecondCall =>
        /\ result'.status = "updated" =>
               \/ Assembled(model_data') # Assembled(model_data)
               \/ ~SameTypeAndPricing(model_data, model_data')
        /\ Assembled(model_data') = Assembled(model_data) =>
               (result'.status = "updated"
                    <=> ~SameTypeAndPricing(model_data, model_data'))
        /\ result'.status = "updated" =>
               result'.version = ExpectedNext[result.version]

C27_Amended == [][C27_AmendedStep]_vars

\* the second record of m1 has a pricing of zero: it is updated to 1.1.0
\* and its document has the name, the context block and the roles of the
\* document of a record without pricing
C27_Witness ==
    /\ pc = "done" /\ result.kind = "tuple" /\ result.status = "updated"
    /\ result.version = VersionStr(1, 1, 0)
    /\ model_data = Record({M1}, {Foo}, {"chat"}, {8192}, {Free})
    /\ [files[result.filepath] EXCEPT !.version = DefaultVersion]
           = Assembled(Record({M1}, {Foo}, {"chat"}, {8192}, {}))

-----------------------------------------------------------------------------
(* Properties of sanitize_filename (specification SpecSanitize) *)

TokenReturned == pc = "returned" /\ result.kind = "filename"
Name == model_data["display_name"]
Token == result.filename

\* what the claim says becomes of one character of the name
MapChar(c) ==
    IF c = " " THEN <<"-">>
    ELSE IF c \in {"[", "]", "{", "}", "(", ")"} THEN <<>>
    ELSE IF c \in UpperChars THEN <<LowerSeq[IndexOf(c, UpperSeq)]>>
    ELSE IF c \in LowerChars \cup DigitChars \cup {"_", "-", "."} THEN <<c>>
    ELSE <<"_">>

RECURSIVE MapName(_)
MapName(s) == IF s = <<>> THEN <<>> ELSE MapChar(s[1]) \o MapName(Tail(s))

\* one character for every run of hyphens and for every run of underscores
RECURSIVE Squeeze(_)
Squeeze(s) ==
    IF Len(s) < 2 THEN s
    ELSE IF s[1] = s[2] /\ s[1] \in {"-", "_"} THEN Squeeze(Tail(s))
    ELSE <<s[1]>> \o Squeeze(Tail(s))

\* the longest prefix that does not end with a hyphen or an underscore
WithoutTrail(s) ==
    LET Ends == {k \in 0..Len(s) : k = 0 \/ s[k] \notin {"-", "_"}}
        n    == CHOOSE k \in Ends : \A j \in Ends : j <= k
    IN  SubSeq(s, 1, n)

GemmaToken == <<"g", "e", "m", "m", "a", "-", "2", "-", "i", "n", "s", "t", "r", "u", "c", "t", "-", "9", "b">>
MistralToken == <<"m", "i", "s", "t", "r", "a", "l", "-", "7", "b", "-", "i", "n", "s", "t", "r", "u", "c", "t", "-", "v", "0", ".", "2">>

\* C20: the token sanitize_filename returns for a display name is made of
\* lower case letters, digits, underscores, hyphens and dots only; it is the
\* name in which every space became a hyphen, every bracket, paren and brace
\* was deleted, upper case became lower case and every other character that is
\* no word character, hyphen or dot became an underscore, with every run of
\* underscores and every run of hyphens reduced to one character and the
\* trailing hyphens and underscores removed; it has no two underscores and no
\* two hyphens in a row and does not end with either; the empty name gives the
\* empty token, and the two names of the specification give their tokens.
C20_SanitizedToken ==
    TokenReturned =>
        /\ Range(Token) \subseteq LowerChars \cup DigitChars \cup {"_", "-", "."}
        /\ \A k \in 1..(Len(Token) - 1) :
               ~(Token[k] = Token[k + 1] /\ Token[k] \in {"-", "_"})
        /\ Token # <<>> => Token[Len(Token)] \notin {"-", "_"}
        /\ Token = WithoutTrail(Squeeze(MapName(Name)))
        /\ Name = <<>> => Token = <<>>
        /\ Name = Gemma2Instruct9B => Token = GemmaToken
        /\ Name = Mistral7BInstruct => Token = MistralToken

\* an upper case letter, a space, a paren and a slash: the paren goes, the
\* slash becomes an underscore, and the hyphen and the underscore at the end
\* are stripped
C20_Witness ==
    /\ TokenReturned
    /\ Name = <<"A", " ", "(", "/">>
    /\ Token = <<"a">>

-----------------------------------------------------------------------------
(* Properties of the runs on the same input (specification SpecRerun) *)

Catalog == args.models_data

\* the record is one the for loop skips under the options of the runs
IsSkipped(md) ==
    \/ Get(md, "type", "") \in {"image", "audio", "moderation", "multimodal"}
    \/ /\ args.skip_free
       /\ Get(md, "pricing", EmptyDict) # EmptyDict
       /\ Get(Get(md, "pricing", EmptyDict), "input", 0) = 0
       /\ Get(Get(md, "pricing", EmptyDict), "output", 0) = 0

\* every record of the catalog that is not skipped passes validation
ValidCatalog ==
    \A k \in 1..Len(Catalog) : IsSkipped(Catalog[k]) \/ ~EmptyRoleSet(Catalog[k])

\* the records of one id that are not skipped agree on the hashed fields
OneFingerprintPerId ==
    \A j, k \in 1..Len(Catalog) :
        (~IsSkipped(Catalog[j]) /\ ~IsSkipped(Catalog[k])
            /\ Get(Catalog[j], "id", <<>>) = Get(Catalog[k], "id", <<>>)) =>
            SameHashedFields(Catalog[j], Catalog[k])

\* the step belongs to a run that follows a run on the same input that
\* reached its end
SecondRunStep == hist.completed >= 1 /\ pc = "loop"

\* C24 as claimed: in a run that follows a run on the same catalog with the
\* same options, every record processed has status unchanged, no document is
\* written, and the ledger saved is the ledger the run before saved.
C24_OriginalStep ==
    (SecondRunStep /\ ValidCatalog) =>
        /\ Returned => result'.status = "unchanged"
        /\ files' = files
        /\ cache_file' = cache_file

C24_AmendedStep ==
    (SecondRunStep /\ ValidCatalog /\ ~args.force_regenerate
        /\ OneFingerprintPerId) =>
        /\ Returned => result'.status = "unchanged"
        /\ files' = files
        /\ cache_file' = cache_file

RunEnded == pc = "idle" /\ hist.completed >= 1

\* the record at position k of the catalog had its document written in the
\* run
Wrote(k) ==
    /\ hist.results[k].kind = "tuple"
    /\ hist.results[k].status \in {"created", "updated"}

IdAt(k) == Get(Catalog[k], "id", <<>>)

\* C25: after a run, no two records with different ids have written their
\* documents to the same location, and the document at the location stored in
\* the ledger entry of an id whose document was written is the document of
\* that id with the version of the ledger.
C25_DistinctLocations ==
    RunEnded =>
        /\ \A j, k \in 1..Len(hist.results) :
               (Wrote(j) /\ Wrote(k) /\ IdAt(j) # IdAt(k)) =>
                   hist.results[j].filepath # hist.results[k].filepath
        /\ \A k \in 1..Len(hist.results) :
               Wrote(k) =>
                   LET entry == cache_file[IdAt(k)]
                   IN  /\ entry.filename \in DOMAIN files
                       /\ files[entry.filename].models[1].model = IdAt(k)
                       /\ files[entry.filename].version = entry.version

\* main() on the catalog without a kill: the ledger, the output directory and
\* the results after the first k records, from the ledger and the directory
\* the run starts with
RECURSIVE UninterruptedRun(_, _, _)
UninterruptedRun(k, cache, dir) ==
    IF k = 0
    THEN [cache |-> IF args.force_regenerate THEN EmptyDict ELSE cache,
          files |-> dir, results |-> <<>>]
    ELSE LET before == UninterruptedRun(k - 1, cache, dir)
             md     == Catalog[k]
             out    == IF SkippedType(md) \/ SkippedFree(md)
                       THEN [result |-> Skipped, cache |-> before.cache,
                             files |-> before.files]
                       ELSE create_yaml_file(md, before.cache, before.files)
         IN  [cache |-> out.cache, files |-> out.files,
              results |-> Append(before.results, out.result)]

\* the first run was killed after it had written a document, and the run made
\* after it has reached its end
RerunEnded ==
    /\ pc = "idle" /\ hist.interrupted /\ hist.completed = 1
    /\ hist.partial # hist.start.files

\* C28: when a run is killed after it wrote documents and before the ledger is
\* saved, the run made next on the same input ends with the persisted ledger,
\* the stored documents and the result of every record (status, version,
\* change details) of a run without a kill from the same ledger and directory.
C28_InterruptAndRerun ==
    RerunEnded =>
        LET whole == UninterruptedRun(Len(Catalog), hist.start.cache,
                                      hist.start.files)
        IN  /\ cache_file = whole.cache
            /\ files = whole.files
            /\ hist.results = whole.results

\* the killed run had replaced the document of m2 at 2.3.7 by the one of its
\* record without context length, and the rerun reports that record updated
C28_Witness ==
    /\ RerunEnded
    /\ ~args.force_regenerate
    /\ M2 \in DOMAIN hist.start.cache
    /\ hist.start.cache[M2].version = VersionStr(2, 3, 7)
    /\ Len(hist.results) = 2
    /\ hist.results[1].kind = "tuple" /\ hist.results[1].status = "updated"
    /\ hist.results[1].version = Version_2_4_0
    /\ Get(Catalog[1], "id", <<>>) = M2
    /\ hist.partial = files

====
